---- MODULE Spec2Model ----
(***************************************************************************)
(* SoulSync plan / swap / completion lifecycle.                            *)
(*                                                                         *)
(* The persisted store (SQLAlchemy models of soulsync/models.py) is the    *)
(* record db.  Every service function is an operator from a store to a     *)
(* store, translated statement by statement; an action applies one         *)
(* function call and records the call and what it returned in last.        *)
(* A call runs in its own Session which is closed when the call returns    *)
(* or raises (pages/2_Missions.py:45,521-522), so what a call leaves       *)
(* behind is exactly what it committed.                                    *)
(***************************************************************************)
EXTENDS Integers, Sequences, FiniteSets, TLC

VARIABLES db, last, sess

vars == <<db, last, sess>>

\* ---------------------------------------------------------------- bounds
\* MaxRuns caps the PlanRun rows, MaxMissions the Mission rows and MaxStreak
\* the streak counter; the actions that add to them are guarded by the caps.
MaxRuns == 2
MaxMissions == 2
MaxStreak == 1
MaxAssigns == 4

\* ------------------------------------------------------ program constants
MICRO_XP_DEFAULT == 2
MICRO_DAILY_CAP == 10
MICRO_MAX_DURATION_AFTER_BEDTIME == 15
MICRO_BONUS_XP == 2
MICRO_MAX_MINUTES == 5
RECOVERY_XP == 25
RECOVERY_MINUTES == 10
DEFAULT_SHIELDS == 2
SWAP_PLAN_VERSION == 1

MICRO_ALLOWED_TYPES_AFTER_BEDTIME == {"reflection", "sleep"}
STATS_TYPES == {"Knowledge", "Guts", "Proficiency", "Kindness", "Charm"}

\* One registered user, one calendar date, one clock reading; two sessions
\* for the interleaved runs of SpecConc.
Users == {1}
Dates == {1}
Times == {1}
Sessions == {1, 2}
\* Who may ask for a completion: the user, and another registered user who
\* owns no Assignment.
Requesters == {1, 2}

NoProof == {}

\* ------------------------------------------------------------ the models
\* PlanRun row; its id is its index in db.runs.  plan is meta_json.plan_json
\* ["missions"], swaps is meta_json.swap_json["replacements"].
PlanRun(u, d, v, k, st, plan, swaps) ==
    [user |-> u, date |-> d, version |-> v, kind |-> k, status |-> st,
     plan |-> plan, swaps |-> swaps]

\* Mission row; parent_type is geo_rule_json["parent_type"] ("" when absent).
Mission(title, type, xp, dur, d, rec, ptype) ==
    [title |-> title, type |-> type, xp |-> xp, dur |-> dur, date |-> d,
     recovery |-> rec, parent_type |-> ptype]

\* MissionAssignment row; run = 0 is plan_run_id NULL, completed_at = 0 is
\* NULL, proof is the set of keys present in proof_json.  grants is not a
\* column: it counts the add_xp calls made on behalf of this assignment.
MissionAssignment(u, m, d, run, proof) ==
    [user |-> u, mission |-> m, date |-> d, status |-> "pending", run |-> run,
     completed_at |-> 0, proof |-> proof, shield |-> FALSE, grants |-> 0]

\* Stat row of one (user, type).
Stat == [level |-> 1, xp |-> 0]

\* Profile row with the column defaults; exists is FALSE until the Settings
\* page inserts the row; last_reset is the clock tick of last_shield_reset_at
\* (0 is NULL).
Profile(ex) ==
    [exists |-> ex, streak |-> 0, shields |-> DEFAULT_SHIELDS, last_reset |-> 0]

\* AuditLog row; db.audit is the set of the rows (their ids are not kept).
AuditLog(event, ref) == [event |-> event, ref |-> ref]

\* -------------------------------------------------- candidate documents
\* One entry of plan_json["missions"]; micro says whether the entry carries
\* a micro companion with a non-blank title.
PlanEntry(title, type, micro) ==
    [title |-> title, type |-> type, difficulty |-> "easy", xp |-> 10,
     dur |-> 5, micro |-> micro]

Candidates ==
    { <<>>,
      << PlanEntry("Read", "reflection", TRUE), PlanEntry("Revise", "study", FALSE) >> }

\* -------------------------------------------------------------- helpers
SetMin(S) == CHOOSE x \in S : \A y \in S : x <= y

\* ---------------------------------------------------------------- stats
\* complete_mission's stat_map with its "Proficiency" default.
StatFor(type) ==
    CASE type = "study" -> "Knowledge"
      [] type = "fitness" -> "Guts"
      [] type = "reflection" -> "Proficiency"
      [] type = "sleep" -> "Kindness"
      [] type = "nutrition" -> "Charm"
      [] type = "social" -> "Charm"
      [] type = "chores" -> "Guts"
      [] OTHER -> "Proficiency"

\* add_xp: adds amount to the stat, levels up at level * 100, and commits.
\* a is the assignment the caller is completing (see grants).
add_xp(d, stat_type, amount, a) ==
    LET s  == d.stats[stat_type]
        x  == s.xp + amount
        rq == s.level * 100
        s2 == IF x >= rq THEN [level |-> s.level + 1, xp |-> x - rq]
                         ELSE [level |-> s.level, xp |-> x]
    IN [d EXCEPT !.stats[stat_type] = s2,
                 !.assigns[a].grants = @ + 1]

\* ---------------------------------------------------------- preview_plan
\* A preview that finds no assigned run.
NoneAssigned(d, u, dt) == 0

\* .first() of the assigned full-day runs of (user, date); 0 when none.
FirstAssigned(d, u, dt) ==
    LET S == {i \in DOMAIN d.runs :
                 /\ d.runs[i].user = u /\ d.runs[i].date = dt
                 /\ d.runs[i].kind = "full_plan"
                 /\ d.runs[i].status = "assigned"}
    IN IF S = {} THEN 0 ELSE SetMin(S)

preview_plan(d, u, dt, plan) ==
    LET ex == FirstAssigned(d, u, dt)
        v  == IF ex = 0 THEN 1 ELSE d.runs[ex].version + 1
    IN [d EXCEPT !.runs = Append(@, PlanRun(u, dt, v, "full_plan", "previewed",
                                             plan, <<>>))]

\* ---------------------------------- assign_plan_creating_daily_missions
\* The query of lines 451-456.
ExistingAssigned(d, u, dt) ==
    {i \in DOMAIN d.runs :
        /\ d.runs[i].user = u /\ d.runs[i].date = dt
        /\ d.runs[i].kind = "full_plan" /\ d.runs[i].status = "assigned"}

\* An assign without the early return of line 459.
NeverAlreadyAssigned(d, r) == FALSE

\* The test of line 459.
AlreadyAssigned(d, r) == d.runs[r].status = "assigned"

\* The query of lines 466-471, for every old plan the loop of 463 visits.
OldAssigns(d, u, dt, r, existing) ==
    {i \in DOMAIN d.assigns :
        /\ d.assigns[i].user = u /\ d.assigns[i].date = dt
        /\ d.assigns[i].run \in (existing \ {r})
        /\ d.assigns[i].status = "pending"}

\* The rows of S get the status st, one row after the other.
RECURSIVE SetStatus(_, _, _)
SetStatus(rows, S, st) ==
    IF S = {} THEN rows
    ELSE LET i == CHOOSE x \in S : TRUE
         IN SetStatus([rows EXCEPT ![i].status = st], S \ {i}, st)

\* An assign that leaves the earlier runs and their Assignments as they are.
SupersedeNothing(d, r, existing, olds) == d

\* Lines 463-473: the writes of the supersession.
SupersedeEarlier(d, r, existing, olds) ==
    [d EXCEPT !.runs = SetStatus(@, existing \ {r}, "superseded"),
              !.assigns = SetStatus(@, olds, "archived")]

\* A loop that raises even when the plan has no entry.
AssignLoopRaising(w, r, i, mm) == [db |-> w, raised |-> TRUE]

\* Lines 489-575, one iteration per entry from index i on.  mm is the id of
\* the Mission the local micro_mission is bound to, 0 while the local is
\* unbound.  Line 504 reads micro_mission and micro_why before the first
\* binding of lines 537/547, which raises UnboundLocalError.
RECURSIVE AssignLoop(_, _, _, _)
AssignLoop(w, r, i, mm) ==
    LET run == w.runs[r]
        e   == run.plan[i]
    IN IF i > Len(run.plan) THEN [db |-> w, raised |-> FALSE]
       ELSE IF mm = 0 THEN [db |-> w, raised |-> TRUE]
       ELSE LET w1  == [w EXCEPT !.missions[mm].parent_type = e.type]
                mid == Len(w1.missions) + 1
                w2  == [w1 EXCEPT
                          !.missions = Append(@, Mission(e.title, e.type, e.xp,
                                              e.dur, run.date, FALSE, "")),
                          !.assigns = Append(@, MissionAssignment(run.user, mid,
                                              run.date, r, {"source"}))]
                w3  == IF e.micro
                       THEN [w2 EXCEPT
                               !.missions = Append(@, Mission(e.title, "micro",
                                              5, 3, run.date, FALSE, "")),
                               !.assigns = Append(@, MissionAssignment(run.user,
                                              mid + 1, run.date, r, {"source"}))]
                       ELSE w2
                mm2 == IF e.micro THEN mid + 1 ELSE mm
            IN AssignLoop(w3, r, i + 1, mm2)

\* An assign whose loop works: it creates the run's first Mission and its
\* pending Assignment instead of raising.
AssignBodyRepaired(d, r, existing, olds) ==
    LET w   == SupersedeEarlier(d, r, existing, olds)
        run == w.runs[r]
        mid == Len(w.missions) + 1
        w2  == IF run.plan = << >> THEN w
               ELSE [w EXCEPT
                       !.missions = Append(@, Mission(run.plan[1].title,
                                           run.plan[1].type, run.plan[1].xp,
                                           run.plan[1].dur, run.date, FALSE, "")),
                       !.assigns = Append(@, MissionAssignment(run.user, mid,
                                           run.date, r, {"source"}))]
    IN [db |-> [w2 EXCEPT !.runs[r].status = "assigned"], raised |-> FALSE]

\* Lines 463-578 in the session: supersession, loop, status.
AssignBody(d, r, existing, olds) ==
    LET w  == SupersedeEarlier(d, r, existing, olds)
        lp == AssignLoop(w, r, 1, 0)
    IN IF lp.raised THEN lp
       ELSE [db |-> [lp.db EXCEPT !.runs[r].status = "assigned"],
             raised |-> FALSE]

\* An assign whose writes reach the store although the call failed.
AssignOutcomeLeaking(before, body, commitFails) == body.db

\* What is persisted when the call ends: the single commit of line 581
\* writes the whole session, and nothing was written before it.
AssignOutcome(before, body, commitFails) ==
    IF body.raised \/ commitFails THEN before ELSE body.db

assign_plan_creating_daily_missions(d, r, commitFails) ==
    LET u  == d.runs[r].user
        dt == d.runs[r].date
        ex == ExistingAssigned(d, u, dt)
    IN IF AlreadyAssigned(d, r)
       THEN [db |-> d, ret |-> "false"]
       ELSE LET body == AssignBody(d, r, ex, OldAssigns(d, u, dt, r, ex))
            IN [db  |-> AssignOutcome(d, body, commitFails),
                ret |-> IF body.raised THEN "UnboundLocalError"
                        ELSE IF commitFails THEN "CommitError"
                        ELSE "true"]

\* ---------------------------------------------- generate_daily_missions
\* The legacy missions the journal metrics select, in the order appended.
LegacyMissions(metrics) ==
    (IF metrics.sleep_hours < 7
        THEN << [title |-> "Power Nap or Early Bedtime", type |-> "sleep", xp |-> 20] >>
        ELSE <<>>)
    \o (IF metrics.study_minutes < 30
        THEN << [title |-> "Focus Session: 25 mins", type |-> "study", xp |-> 30] >>
        ELSE <<>>)
    \o << [title |-> "Evening Reflection", type |-> "reflection", xp |-> 15] >>
    \o (IF metrics.movement_minutes < 15
        THEN << [title |-> "Quick Walk or Stretch", type |-> "fitness", xp |-> 20] >>
        ELSE <<>>)

RECURSIVE CreateLegacy(_, _, _, _)
CreateLegacy(d, u, today, ms) ==
    IF ms = <<>> THEN d
    ELSE LET m   == Head(ms)
             mid == Len(d.missions) + 1
             d1  == [d EXCEPT
                       !.missions = Append(@, Mission(m.title, m.type, m.xp, 0,
                                                      today, FALSE, "")),
                       !.assigns = Append(@, MissionAssignment(u, mid, today, 0,
                                                      NoProof))]
         IN CreateLegacy(d1, u, today, Tail(ms))

generate_daily_missions(d, u, today, metrics) ==
    IF \E i \in DOMAIN d.assigns :
           d.assigns[i].user = u /\ d.assigns[i].date = today
    THEN d
    ELSE CreateLegacy(d, u, today, LegacyMissions(metrics))

\* ---------------------------------------- check_and_handle_streak_break
check_and_handle_streak_break(d, u, today) ==
    LET completed_today ==
            Cardinality({i \in DOMAIN d.assigns :
                            /\ d.assigns[i].user = u /\ d.assigns[i].date = today
                            /\ d.assigns[i].status = "completed"})
        mid == Len(d.missions) + 1
    IN IF ~d.profile.exists THEN [db |-> d, ret |-> "false"]
       ELSE IF completed_today = 0 /\ d.profile.shields > 0
       THEN [db |-> [d EXCEPT
                       !.missions = Append(@, Mission("Recover Your Streak",
                                       "Recovery", RECOVERY_XP, RECOVERY_MINUTES,
                                       today, TRUE, "")),
                       !.assigns = Append(@, MissionAssignment(u, mid, today, 0,
                                       NoProof))],
             ret |-> "true"]
       ELSE [db |-> d, ret |-> "false"]

\* ---------------------------------------------------------- apply_swaps
\* One entry of swap_json["replacements"]; micro says whether new_mission
\* carries a micro companion object.
Replacement(replace_title, title, type, xp, dur, micro) ==
    [replace_title |-> replace_title, title |-> title, type |-> type,
     xp |-> xp, dur |-> dur, micro |-> micro]

SwapDocs ==
    LET r1 == Replacement("Evening Reflection", "Short walk", "fitness", 10, 10, TRUE)
        r2 == Replacement("Recover Your Streak", "Breathe", "micro", 10, 3, FALSE)
        r3 == Replacement("Recover Your Streak", "Stretch neck", "micro", 6, 3, FALSE)
    IN { <<r1>>, <<r2>>, <<r1, r2>>, <<r3>> }

\* A swap run whose creation supersedes the assigned runs of the day.
SwapCreateRunSuperseding(d, u, dt, doc) ==
    [d EXCEPT !.runs = Append(SetStatus(@, {i \in DOMAIN d.runs :
                                                d.runs[i].status = "assigned"},
                                        "superseded"),
                              PlanRun(u, dt, SWAP_PLAN_VERSION, "swap",
                                      "assigned", <<>>, doc))]

\* Lines 1034-1051: the swap PlanRun, created 'assigned' and committed.
SwapCreateRun(d, u, dt, doc) ==
    [d EXCEPT !.runs = Append(@, PlanRun(u, dt, SWAP_PLAN_VERSION, "swap",
                                         "assigned", <<>>, doc))]

\* The query of lines 1059-1063: .first() of the pending assignments of
\* (user, date) whose mission has the title; 0 when none.
PendingByTitle(d, u, dt, title) ==
    LET S == {i \in DOMAIN d.assigns :
                 /\ d.assigns[i].user = u /\ d.assigns[i].date = dt
                 /\ d.assigns[i].status = "pending"
                 /\ d.missions[d.assigns[i].mission].title = title}
    IN IF S = {} THEN 0 ELSE SetMin(S)

\* Lines 1065-1070: the target is archived; the stamp reaches the store only
\* when proof_json was NULL (the new dict is an attribute change; a dict
\* already there is mutated in place, which the JSON column does not track).
SwapArchive(d, old) ==
    IF old = 0 THEN d
    ELSE [d EXCEPT !.assigns[old].status = "archived",
                   !.assigns[old].proof =
                       IF @ = NoProof THEN {"swapped_out", "swap_plan_run_id"}
                       ELSE @]

\* Lines 1054-1099: one replacement up to the commit of its new Mission.  The
\* micro object of the replacement only fills geo_rule_json (lines 1083-1095);
\* no Mission or Assignment is made of it.
SwapMission(d, rid, repl) ==
    LET run == d.runs[rid]
        d1  == SwapArchive(d, PendingByTitle(d, run.user, run.date,
                                             repl.replace_title))
    IN [d1 EXCEPT !.missions = Append(@, Mission(repl.title, repl.type, repl.xp,
                                                 repl.dur, run.date, FALSE, ""))]

\* Lines 1102-1109: the Assignment of the Mission mid just created.
SwapAssignment(d, rid, mid) ==
    LET run == d.runs[rid]
    IN [d EXCEPT !.assigns = Append(@, MissionAssignment(run.user, mid,
                                                        run.date, rid, NoProof))]

\* Lines 1113-1127.
SwapAudit(d, rid) ==
    [d EXCEPT !.audit = @ \union {AuditLog("missions_swapped", rid)}]

RECURSIVE SwapLoop(_, _, _)
SwapLoop(d, rid, i) ==
    IF i > Len(d.runs[rid].swaps) THEN d
    ELSE LET d1 == SwapMission(d, rid, d.runs[rid].swaps[i])
         IN SwapLoop(SwapAssignment(d1, rid, Len(d1.missions)), rid, i + 1)

apply_swaps(d, u, dt, doc) ==
    LET d1 == SwapCreateRun(d, u, dt, doc)
    IN SwapAudit(SwapLoop(d1, Len(d1.runs), 1), Len(d1.runs))

\* ------------------------------------------------------ complete_mission
\* fault is where the store fails during the call: "none", "ledger" (inside
\* add_xp, before its commit) or "commit" (the commit that follows the audit
\* append of mark_micro_completed, line 133).
Faults == {"none", "ledger", "commit"}

\* Lines 677-678 in the session.
MarkCompleted(d, a, now) ==
    [d EXCEPT !.assigns[a].status = "completed",
              !.assigns[a].completed_at = now]

complete_mission(d, a, now, fault) ==
    IF a \notin DOMAIN d.assigns \/ d.assigns[a].status = "completed"
    THEN [db |-> d, ret |-> "none"]
    ELSE LET w == MarkCompleted(d, a, now)
             m == d.missions[d.assigns[a].mission]
         IN IF fault = "ledger" THEN [db |-> d, ret |-> "StoreError"]
            ELSE \* add_xp commits the session: status and reward together;
                 \* line 693 then has nothing left to write
                 [db |-> add_xp(w, StatFor(m.type), m.xp, a), ret |-> "none"]

\* -------------------------------------------- complete_assignment
\* is_micro: Mission has no duration_min attribute, so minutes is 0.
is_micro(m) ==
    LET minutes == 0
    IN m.type = "micro" \/ (0 < minutes /\ minutes <= MICRO_MAX_MINUTES)

\* Lines 43-66 in the session: Mission has no xp attribute, so base_xp is 0.
CompleteAssignmentBody(d, a, now) ==
    LET m      == d.missions[d.assigns[a].mission]
        base   == 0
        bonus  == IF is_micro(m) THEN MICRO_BONUS_XP ELSE 0
    IN [d EXCEPT !.assigns[a].status = "completed",
                 !.assigns[a].completed_at = now,
                 !.assigns[a].proof = @ \union {"completed_via", "completed_at",
                                    "base_xp", "micro_bonus_xp", "earned_xp"}]

\* Line 68 builds AuditLog(action=...); AuditLog has no such column and the
\* constructor raises TypeError, before the commit of line 79: the session's
\* work is never written.  No line of the function calls add_xp.
CompleteAssignmentOutcome(before, work) == before

complete_assignment(d, u, a, now) ==
    IF a \notin DOMAIN d.assigns \/ d.assigns[a].user # u
    THEN [db |-> d, ret |-> "ValueError"]
    ELSE IF d.assigns[a].status = "completed"
    THEN [db |-> d, ret |-> "assignment"]
    ELSE [db  |-> CompleteAssignmentOutcome(d, CompleteAssignmentBody(d, a, now)),
          ret |-> "TypeError"]

\* ------------------------------------------------- mark_micro_completed
\* can_mark_micro_now, given that the mission exists.
can_mark_micro_now(m, after_bedtime) ==
    /\ m.type = "micro"
    /\ after_bedtime =>
          /\ m.parent_type \in MICRO_ALLOWED_TYPES_AFTER_BEDTIME
          /\ m.dur <= MICRO_MAX_DURATION_AFTER_BEDTIME

\* An award that ignores the daily cap.
MicroAwardUncapped(d, u, today, m) ==
    IF m.xp # 0 THEN m.xp ELSE MICRO_XP_DEFAULT

\* Lines 52-71 of award_micro_xp: the amount to award.  The query does not
\* see the session's own unflushed status change (autoflush is off).
MicroAward(d, u, today, m) ==
    LET xp    == IF m.xp # 0 THEN m.xp ELSE MICRO_XP_DEFAULT
        done  == {i \in DOMAIN d.assigns :
                     /\ d.assigns[i].user = u /\ d.assigns[i].date = today
                     /\ d.assigns[i].status = "completed"
                     /\ d.missions[d.assigns[i].mission].type = "micro"}
        RECURSIVE Sum(_)
        Sum(S) == IF S = {} THEN 0
                  ELSE LET i == CHOOSE x \in S : TRUE
                       IN d.missions[d.assigns[i].mission].xp + Sum(S \ {i})
        total == Sum(done)
    IN IF total + xp > MICRO_DAILY_CAP
       THEN (IF MICRO_DAILY_CAP - total > 0 THEN MICRO_DAILY_CAP - total ELSE 0)
       ELSE xp

\* What mark_micro_completed returns: "ok", or not ok with the error "not_found"
\* (line 89), "not_micro" (line 99), "refused" (the reason of
\* can_mark_micro_now, line 105) or "not_ok" (the exception of line 137).
mark_micro_completed(d, a, now, after_bedtime, today, fault) ==
    IF a \notin DOMAIN d.assigns THEN [db |-> d, ret |-> "not_found"]
    ELSE IF d.assigns[a].status = "completed" THEN [db |-> d, ret |-> "ok"]
    ELSE LET m == d.missions[d.assigns[a].mission]
             u == d.assigns[a].user
         IN IF m.type # "micro" THEN [db |-> d, ret |-> "not_micro"]
            ELSE IF ~can_mark_micro_now(m, after_bedtime)
            THEN [db |-> d, ret |-> "refused"]
            ELSE LET w   == MarkCompleted(d, a, now)
                     xp  == MicroAward(d, u, today, m)
                     \* add_xp commits the session when it is called
                     w1  == IF xp > 0 THEN add_xp(w, "Proficiency", xp, a) ELSE w
                     w2  == [w1 EXCEPT !.audit = @ \union
                                 {AuditLog("mission_micro_completed", a)}]
                 IN IF fault = "ledger" /\ xp > 0
                    THEN [db |-> d, ret |-> "not_ok"]
                    ELSE IF fault = "commit"
                    THEN [db |-> IF xp > 0 THEN w1 ELSE d, ret |-> "not_ok"]
                    ELSE [db |-> w2, ret |-> "ok"]

\* ------------------------------------------- complete_recovery_mission
complete_recovery_mission(d, a) ==
    IF a \notin DOMAIN d.assigns THEN d
    ELSE LET d1 == [d EXCEPT !.assigns[a].status = "completed",
                             !.assigns[a].shield = TRUE]
         IN IF d1.profile.exists
            THEN [d1 EXCEPT !.profile.streak = @ + 1,
                            !.profile.shields = IF @ - 1 > 0 THEN @ - 1 ELSE 0]
            ELSE d1

\* -------------------------------------------- Settings page, lines 31-38
save_day_end(d) ==
    IF d.profile.exists THEN d ELSE [d EXCEPT !.profile = Profile(TRUE)]

\* ------------------------------------------------------------ the state
EmptyDb ==
    [runs |-> <<>>, missions |-> <<>>, assigns |-> <<>>,
     stats |-> [t \in STATS_TYPES |-> Stat],
     profile |-> Profile(FALSE), audit |-> {}]

\* The call made last: the function, its main argument (a PlanRun or an
\* assignment id, 0 when there is none), what it returned or raised, whether
\* it repeats the call made just before it, the status its assignment had
\* before the first call of such a run of repeated calls, and whether the
\* call changed the store.
NoCall == [op |-> "none", arg |-> 0, ret |-> "none", rep |-> FALSE,
           pre |-> "", changed |-> FALSE]

Idle == [pc |-> "idle", run |-> 0, existing |-> {}, olds |-> {}, i |-> 0,
         mid |-> 0, raced |-> FALSE, ret |-> "none"]

Init ==
    /\ db = EmptyDb
    /\ last = NoCall
    /\ sess = [s \in Sessions |-> Idle]

Call(op, arg, ret, nd) ==
    [op |-> op, arg |-> arg, ret |-> ret, rep |-> FALSE, pre |-> "",
     changed |-> nd # db]

\* A call of a completion function on assignment a.
CompletionCall(op, a, ret, nd) ==
    LET again == last.op = op /\ last.arg = a
    IN [op |-> op, arg |-> a, ret |-> ret, rep |-> again,
        pre |-> IF again THEN last.pre
                ELSE IF a \in DOMAIN db.assigns THEN db.assigns[a].status
                ELSE "",
        changed |-> nd # db]

\* A call of complete_assignment by requester u: pre is the status of the
\* Assignment the query of lines 27-31 finds, "" when it finds none.
RequesterCall(op, u, a, ret, nd) ==
    LET again == last.op = op /\ last.arg = a /\ last.user = u
    IN [op |-> op, arg |-> a, user |-> u, ret |-> ret, rep |-> again,
        pre |-> IF again THEN last.pre
                ELSE IF a \in DOMAIN db.assigns /\ db.assigns[a].user = u
                THEN db.assigns[a].status
                ELSE "",
        changed |-> nd # db]

\* A call of mark_micro_completed: wind_down is what compute_time_context
\* (line 102) makes of the clock at the call.
MicroCall(op, a, after_bedtime, ret, nd) ==
    LET c == CompletionCall(op, a, ret, nd)
    IN [op |-> c.op, arg |-> c.arg, wind_down |-> after_bedtime, ret |-> c.ret,
        rep |-> c.rep, pre |-> c.pre, changed |-> c.changed]

\* The ids a caller may pass: those of the store and one that is not there.
AssignmentIds == DOMAIN db.assigns \union {Len(db.assigns) + 1}

\* ---------------------------------------------------------- the actions
SaveSettings ==
    /\ db' = save_day_end(db)
    /\ last' = Call("save_day_end", 0, "none", db')
    /\ UNCHANGED sess

PreviewPlan ==
    \E u \in Users, dt \in Dates, plan \in Candidates :
        /\ Len(db.runs) < MaxRuns
        /\ db' = preview_plan(db, u, dt, plan)
        /\ last' = Call("preview_plan", Len(db.runs) + 1, "run", db')
        /\ UNCHANGED sess

AssignPlan ==
    \E r \in DOMAIN db.runs, commitFails \in BOOLEAN :
        /\ db.runs[r].kind = "full_plan"
        /\ LET res == assign_plan_creating_daily_missions(db, r, commitFails)
           IN /\ db' = res.db
              /\ last' = Call("assign", r, res.ret, res.db)
        /\ UNCHANGED sess

Metrics ==
    { [sleep_hours |-> 8, study_minutes |-> 60, movement_minutes |-> 30],
      [sleep_hours |-> 8, study_minutes |-> 0, movement_minutes |-> 30] }

GenerateDailyMissions ==
    \E u \in Users, today \in Dates, metrics \in Metrics :
        /\ Len(db.missions) + Len(LegacyMissions(metrics)) <= MaxMissions
        /\ db' = generate_daily_missions(db, u, today, metrics)
        /\ last' = Call("generate_daily_missions", 0, "none", db')
        /\ UNCHANGED sess

StreakBreak ==
    \E u \in Users, today \in Dates :
        /\ Len(db.missions) < MaxMissions
        /\ LET res == check_and_handle_streak_break(db, u, today)
           IN /\ db' = res.db
              /\ last' = Call("check_and_handle_streak_break", 0, res.ret, res.db)
        /\ UNCHANGED sess

ApplySwaps ==
    \E u \in Users, dt \in Dates, doc \in SwapDocs :
        /\ Len(db.runs) < MaxRuns
        /\ Len(db.missions) + Len(doc) <= MaxMissions
        /\ db' = apply_swaps(db, u, dt, doc)
        /\ last' = Call("apply_swaps", Len(db.runs) + 1, "run", db')
        /\ UNCHANGED sess

CompleteMission ==
    \E a \in AssignmentIds, now \in Times, fault \in {"none", "ledger"} :
        /\ LET res == complete_mission(db, a, now, fault)
           IN /\ db' = res.db
              /\ last' = CompletionCall("complete_mission", a, res.ret, res.db)
        /\ UNCHANGED sess

CompleteAssignment ==
    \E u \in Requesters, a \in AssignmentIds, now \in Times :
        /\ LET res == complete_assignment(db, u, a, now)
           IN /\ db' = res.db
              /\ last' = RequesterCall("complete_assignment", u, a, res.ret, res.db)
        /\ UNCHANGED sess

MarkMicroCompleted ==
    \E a \in DOMAIN db.assigns, now \in Times, after_bedtime \in BOOLEAN,
       today \in Dates, fault \in Faults :
        /\ LET res == mark_micro_completed(db, a, now, after_bedtime, today, fault)
           IN /\ db' = res.db
              /\ last' = MicroCall("mark_micro_completed", a, after_bedtime,
                                   res.ret, res.db)
        /\ UNCHANGED sess

CompleteRecoveryMission ==
    \E a \in DOMAIN db.assigns :
        /\ db.profile.streak < MaxStreak
        /\ db' = complete_recovery_mission(db, a)
        /\ last' = CompletionCall("complete_recovery_mission", a, "none", db')
        /\ UNCHANGED sess

Next ==
    \/ SaveSettings
    \/ PreviewPlan
    \/ AssignPlan
    \/ GenerateDailyMissions
    \/ StreakBreak
    \/ ApplySwaps
    \/ CompleteMission
    \/ CompleteAssignment
    \/ MarkMicroCompleted
    \/ CompleteRecoveryMission

Spec == Init /\ [][Next]_vars

\* ------------------------------------------- planner_service and party
\* The dates apply_plan is called for.
PlanDates == {1, 2}

\* planner_service.apply_plan, lines 50-53: existing_mission_ids is read once
\* before the loop, for the user and the date of the call.
RECURSIVE ApplyPlanLoop(_, _, _, _, _)
ApplyPlanLoop(d, u, dt, mission_ids, existing_mission_ids) ==
    IF mission_ids = << >> THEN d
    ELSE LET mid == Head(mission_ids)
             d1  == IF mid \notin existing_mission_ids
                    THEN [d EXCEPT !.assigns =
                             Append(@, MissionAssignment(u, mid, dt, 0, NoProof))]
                    ELSE d
         IN ApplyPlanLoop(d1, u, dt, Tail(mission_ids), existing_mission_ids)

apply_plan(d, u, dt, mission_ids) ==
    LET existing == {i \in DOMAIN d.assigns :
                        d.assigns[i].user = u /\ d.assigns[i].date = dt}
        existing_mission_ids == {d.assigns[i].mission : i \in existing}
    IN ApplyPlanLoop(d, u, dt, mission_ids, existing_mission_ids)

\* The mission_ids of a call: up to two ids of Missions of the store.
MissionIdLists ==
    { << >> } \union { << m >> : m \in DOMAIN db.missions }
    \union { << m, n >> : m \in DOMAIN db.missions, n \in DOMAIN db.missions }

\* One suggestion of propose_party_missions: a mission for a party member.
PartyDocs ==
    { << [member |-> "Mina", title |-> "Tidy one shelf", type |-> "chores"] >> }

\* party.apply_party_missions: a PlanRun of kind party, created 'assigned',
\* then a Mission and an Assignment of its own for every suggestion, and the
\* audit record.
RECURSIVE PartyLoop(_, _, _)
PartyLoop(d, rid, rs) ==
    IF rs = << >> THEN d
    ELSE LET r   == Head(rs)
             run == d.runs[rid]
             mid == Len(d.missions) + 1
             d1  == [d EXCEPT
                       !.missions = Append(@, Mission(r.title, r.type, 10, 10,
                                                      run.date, FALSE, "")),
                       !.assigns = Append(@, MissionAssignment(run.user, mid,
                                                      run.date, rid, NoProof))]
         IN PartyLoop(d1, rid, Tail(rs))

apply_party_missions(d, u, dt, party_json) ==
    LET d1  == [d EXCEPT !.runs = Append(@, PlanRun(u, dt, 1, "party",
                                                    "assigned", <<>>, <<>>))]
        rid == Len(d1.runs)
        d2  == PartyLoop(d1, rid, party_json)
    IN [d2 EXCEPT !.audit = @ \union {AuditLog("party_missions_assigned", rid)}]

ApplyPlan ==
    \E u \in Users, dt \in PlanDates, mission_ids \in MissionIdLists :
        /\ Len(db.assigns) + Len(mission_ids) <= MaxAssigns
        /\ db' = apply_plan(db, u, dt, mission_ids)
        /\ last' = Call("apply_plan", 0, "none", db')
        /\ UNCHANGED sess

ApplyPartyMissions ==
    \E u \in Users, dt \in Dates, party_json \in PartyDocs :
        /\ Len(db.runs) < MaxRuns
        /\ Len(db.missions) + Len(party_json) <= MaxMissions
        /\ db' = apply_party_missions(db, u, dt, party_json)
        /\ last' = Call("apply_party_missions", Len(db.runs) + 1, "run", db')
        /\ UNCHANGED sess

NextPlanner ==
    \/ GenerateDailyMissions
    \/ StreakBreak
    \/ CompleteRecoveryMission
    \/ PreviewPlan
    \/ AssignPlan
    \/ ApplySwaps
    \/ ApplyPartyMissions
    \/ ApplyPlan

SpecPlanner == Init /\ [][NextPlanner]_vars

\* ------------------------------------------- interleaved sessions
\* Each session is a SessionLocal() of its own (db.py, autoflush off): what
\* it reads is the committed store at the moment of the query, what it
\* writes reaches the store at its db.commit().  An assign call is cut at
\* its one commit (line 581); an apply_swaps call at each of its commits
\* (lines 1050, 1098, 1111, 1127).

Other(s) == CHOOSE t \in Sessions : t # s

\* Lines 450-575 up to the commit: the queries of lines 451-456 and 464-468
\* are answered now, the writes wait in the session.
AssignBegin(s) ==
    \E r \in DOMAIN db.runs :
        /\ sess[s].pc = "idle"
        /\ db.runs[r].kind = "full_plan"
        /\ LET existing == ExistingAssigned(db, db.runs[r].user, db.runs[r].date)
               olds     == OldAssigns(db, db.runs[r].user, db.runs[r].date, r, existing)
               body     == AssignBody(db, r, existing, olds)
               racing   == sess[Other(s)].pc = "assign"
           IN IF AlreadyAssigned(db, r)
              THEN sess' = [sess EXCEPT ![s] = [Idle EXCEPT !.run = r, !.ret = "false"]]
              ELSE IF body.raised
              THEN sess' = [sess EXCEPT ![s] = [Idle EXCEPT !.run = r,
                                                !.ret = "UnboundLocalError"]]
              ELSE sess' = [sess EXCEPT
                       ![s] = [Idle EXCEPT !.pc = "assign", !.run = r,
                                    !.existing = existing, !.olds = olds,
                                    !.raced = racing],
                       ![Other(s)] = [@ EXCEPT !.raced = @ \/ racing]]
        /\ UNCHANGED <<db, last>>

\* Line 581: the session's pending writes are applied to the store as it is now.
AssignCommit(s) ==
    /\ sess[s].pc = "assign"
    /\ db' = AssignBody(db, sess[s].run, sess[s].existing, sess[s].olds).db
    /\ sess' = [sess EXCEPT ![s] = [@ EXCEPT !.pc = "idle", !.ret = "true",
                                             !.existing = {}, !.olds = {}]]
    /\ UNCHANGED last

\* Lines 1034-1050: the swap run is created and committed.
SwapBegin(s) ==
    \E u \in Users, dt \in Dates, doc \in SwapDocs :
        /\ sess[s].pc = "idle"
        /\ Len(db.runs) < MaxRuns
        /\ Len(db.missions) + Len(doc) <= MaxMissions
        /\ db' = SwapCreateRun(db, u, dt, doc)
        /\ sess' = [sess EXCEPT ![s] = [Idle EXCEPT !.pc = "swap",
                                             !.run = Len(db.runs) + 1, !.i = 1]]
        /\ UNCHANGED last

\* One turn of the loop of lines 1057-1109, from commit to commit: the
\* Assignment added at the end of the previous turn (lines 1102-1109) goes out
\* with this turn's commit of line 1098.
SwapStep(s) ==
    /\ sess[s].pc = "swap"
    /\ sess[s].i <= Len(db.runs[sess[s].run].swaps)
    /\ LET rid == sess[s].run
           d0  == IF sess[s].mid = 0 THEN db
                  ELSE SwapAssignment(db, rid, sess[s].mid)
           d1  == SwapMission(d0, rid, db.runs[rid].swaps[sess[s].i])
       IN /\ db' = d1
          /\ sess' = [sess EXCEPT ![s] = [@ EXCEPT !.i = @ + 1,
                                                   !.mid = Len(d1.missions)]]
    /\ UNCHANGED last

\* Line 1111: the commit after the loop carries the last Assignment.
SwapFinish(s) ==
    /\ sess[s].pc = "swap"
    /\ sess[s].i > Len(db.runs[sess[s].run].swaps)
    /\ db' = IF sess[s].mid = 0 THEN db
             ELSE SwapAssignment(db, sess[s].run, sess[s].mid)
    /\ sess' = [sess EXCEPT ![s] = [@ EXCEPT !.pc = "swap_audit", !.mid = 0]]
    /\ UNCHANGED last

\* Lines 1113-1127: the audit record and its commit.
SwapAuditStep(s) ==
    /\ sess[s].pc = "swap_audit"
    /\ db' = SwapAudit(db, sess[s].run)
    /\ sess' = [sess EXCEPT ![s] = [Idle EXCEPT !.run = sess[s].run, !.ret = "run"]]
    /\ UNCHANGED last

NextConc ==
    \/ PreviewPlan
    \/ GenerateDailyMissions
    \/ \E s \in Sessions : AssignBegin(s)
    \/ \E s \in Sessions : AssignCommit(s)
    \/ \E s \in Sessions : SwapBegin(s)
    \/ \E s \in Sessions : SwapStep(s)
    \/ \E s \in Sessions : SwapFinish(s)
    \/ \E s \in Sessions : SwapAuditStep(s)

SpecConc == Init /\ [][NextConc]_vars

\* ----------------------------------------- the proposal collaborator
\* A JSON object is a function from its keys; {} is the function with no key.
EmptyDict == << >>

Has(doc, key) == key \in DOMAIN doc

\* dict.get(key, default)
Get(doc, key, default) == IF Has(doc, key) THEN doc[key] ELSE default

Min(a, b) == IF a < b THEN a ELSE b

\* What the HTTP call can come to: no API key, an exception (time-out,
\* connection error, a reply without candidates), a status other than 200,
\* or a 200 whose text has a fenced json block or a braces block that parses
\* to doc, a braces block that does not parse, or no braces at all.
Reply(kind, doc) == [kind |-> kind, doc |-> doc]

\* A collaborator that answers a failure with an error object.
call_gemini_json_error_object(reply) ==
    IF reply.kind \in {"fenced", "braces"} THEN reply.doc
    ELSE [error |-> reply.kind]

\* gemini_client.call_gemini_json: the parsed object, or {} on any failure.
call_gemini_json(reply) ==
    CASE reply.kind = "no_key"        -> EmptyDict
      [] reply.kind = "exception"     -> EmptyDict
      [] reply.kind = "status"        -> EmptyDict
      [] reply.kind = "no_braces"     -> EmptyDict
      [] reply.kind = "unparseable"   -> EmptyDict
      [] reply.kind \in {"fenced", "braces"} -> reply.doc

\* generate_ai_plan_json: the prompt is built and the collaborator called.
generate_ai_plan_json(reply) == call_gemini_json(reply)

\* compute_time_context's two effective fields.
TimeContext(bed, mid) ==
    [effective_mins_to_bedtime |-> bed, effective_mins_to_midnight |-> mid]

\* A validator for which wind-down never begins.
AfterBedtimeNever(tc) == FALSE

\* Lines 338, 775-776 and 901-902.
AfterBedtime(tc) == Get(tc, "effective_mins_to_bedtime", 0) = 0

EffectiveMins(tc) ==
    IF AfterBedtime(tc) THEN Get(tc, "effective_mins_to_midnight", 0)
    ELSE Get(tc, "effective_mins_to_bedtime", 0)

\* A ceiling that does not look at the time.
SwapLimitFixed(effective_mins) == 3

\* Lines 778-783 and 904-909.
SwapLimit(effective_mins) ==
    IF effective_mins < 15 THEN 1
    ELSE IF effective_mins < 30 THEN 2
    ELSE 3

ALLOWED_MISSION_TYPES ==
    {"study", "fitness", "sleep", "nutrition", "reflection", "social", "chores"}

WIND_DOWN_TYPES == {"reflection", "sleep"}

\* The titles of the inputs that contain one of UNSAFE_KEYWORDS.
UnsafeTitles == {"Adult quiz"}

\* One entry of "replacements" as the collaborator writes it.
NewMission(title, type, difficulty, dur, xp, micro) ==
    [title |-> title, type |-> type, difficulty |-> difficulty,
     duration_minutes |-> dur, xp_reward |-> xp, micro |-> micro]

SwapEntry(replace_title, new_mission) ==
    [replace_title |-> replace_title, new_mission |-> new_mission]

\* Lines 937-986: the errors of replacement i.
EntryErrors(replacements, i, pending_titles, tc) ==
    LET repl  == replacements[i]
        nm    == Get(repl, "new_mission", EmptyDict)
        rt    == Get(repl, "replace_title", "")
        m_type == Get(nm, "type", "")
        m_dur  == Get(nm, "duration_minutes", 0)
        m_xp   == Get(nm, "xp_reward", 0)
        micro  == Get(nm, "micro", EmptyDict)
    IN  (IF \A j \in DOMAIN pending_titles : pending_titles[j] # rt
            THEN {"not_pending"} ELSE {})
        \union (IF \E j \in 1..(i - 1) :
                       Get(replacements[j], "replace_title", "") = rt
                   THEN {"duplicate"} ELSE {})
        \union (IF m_type \notin ALLOWED_MISSION_TYPES THEN {"type"} ELSE {})
        \union (IF AfterBedtime(tc) /\ m_type \notin WIND_DOWN_TYPES
                   THEN {"wind_down"} ELSE {})
        \union (IF AfterBedtime(tc) /\ Get(nm, "difficulty", "") # "easy"
                   THEN {"not_easy"} ELSE {})
        \union (IF AfterBedtime(tc) /\ m_dur > 15
                   THEN {"long_after_bedtime"} ELSE {})
        \union (IF m_dur < 5 \/ m_dur > 60 THEN {"duration"} ELSE {})
        \union (IF m_xp < 5 \/ m_xp > 60 THEN {"xp"} ELSE {})
        \union (IF ~Has(micro, "title") THEN {"micro_required"}
                ELSE IF Get(micro, "duration_minutes", 0) > 5
                THEN {"micro_long"} ELSE {})
        \union (IF Get(nm, "title", "") \in UnsafeTitles THEN {"unsafe"} ELSE {})

\* A validator that never adds the durations up.
TotalDurationZero(replacements) == 0

\* Lines 935 and 988: total_duration over the replacements.
RECURSIVE TotalDuration(_)
TotalDuration(replacements) ==
    IF replacements = << >> THEN 0
    ELSE Get(Get(Head(replacements), "new_mission", EmptyDict),
             "duration_minutes", 0) + TotalDuration(Tail(replacements))

\* validate_swap_plan: the set of errors; the document is valid when it is empty.
SwapPlanErrors(swap_json, pending_titles, tc) ==
    IF ~Has(swap_json, "swap_count") THEN {"missing_swap_count"}
    ELSE
    LET swap_count   == swap_json["swap_count"]
        replacements == Get(swap_json, "replacements", << >>)
        reason       == Get(swap_json, "no_swap_reason", "")
        swap_limit   == SwapLimit(EffectiveMins(tc))
        head == (IF swap_count < 0 \/ swap_count > 3 THEN {"range"} ELSE {})
                \union (IF swap_count > swap_limit THEN {"limit"} ELSE {})
    IN IF swap_count = 0
       THEN head \union (IF replacements # << >> THEN {"not_empty"} ELSE {})
                 \union (IF reason = "" THEN {"no_reason"} ELSE {})
       ELSE head
            \union (IF Len(replacements) # swap_count THEN {"count"} ELSE {})
            \union UNION {EntryErrors(replacements, i, pending_titles, tc) :
                             i \in DOMAIN replacements}
            \union (IF TotalDuration(replacements) > EffectiveMins(tc)
                       THEN {"time"} ELSE {})

validate_swap_plan(swap_json, pending_titles, tc) ==
    LET errors == SwapPlanErrors(swap_json, pending_titles, tc)
    IN [ok |-> errors = {}, errors |-> errors]

\* get_pending_missions: the titles of the pending missions of (user, date)
\* that are not micros, from assignment i on.
RECURSIVE PendingFrom(_, _, _, _)
PendingFrom(d, u, dt, i) ==
    IF i > Len(d.assigns) THEN << >>
    ELSE LET a == d.assigns[i]
             m == d.missions[a.mission]
         IN (IF a.user = u /\ a.date = dt /\ a.status = "pending" /\ m.type # "micro"
                THEN << m.title >> ELSE << >>)
            \o PendingFrom(d, u, dt, i + 1)

get_pending_missions(d, u, dt) == PendingFrom(d, u, dt, 1)

NoSwaps(dt, reason) ==
    [date |-> dt, swap_count |-> 0, no_swap_reason |-> reason,
     replacements |-> << >>, notes |-> ""]

\* A proposal returned as the collaborator wrote it.
Unclamped(swap_count, swap_limit) == swap_count

\* Line 873.
Clamp(swap_count, swap_limit) == Min(swap_count, swap_limit)

\* Lines 862-873: the four keys are filled in and swap_count is clamped.
Normalised(swap_json, swap_limit) ==
    LET defaults == [swap_count |-> 0, replacements |-> << >>,
                     no_swap_reason |-> "", notes |-> ""]
        filled   == [k \in DOMAIN swap_json \union DOMAIN defaults |->
                        IF Has(swap_json, k) THEN swap_json[k] ELSE defaults[k]]
    IN [k \in DOMAIN filled |->
           IF k = "swap_count" THEN Clamp(filled[k], swap_limit) ELSE filled[k]]

\* propose_swaps; tc is what compute_time_context returns at the call, reply
\* what the HTTP call comes to.
propose_swaps(d, u, dt, tc, reply) ==
    IF get_pending_missions(d, u, dt) = << >>
    THEN NoSwaps(dt, "No pending missions to swap.")
    ELSE LET swap_json == call_gemini_json(reply)
         IN IF DOMAIN swap_json = {}
            THEN NoSwaps(dt, "AI swap assistant unavailable.")
            ELSE Normalised(swap_json, SwapLimit(EffectiveMins(tc)))

\* Lines 340-379 of validate_plan: the errors of entry i.
PlanEntryErrors(missions, i, tc) ==
    LET e == missions[i]
    IN  (IF e.type \notin ALLOWED_MISSION_TYPES THEN {"type"} ELSE {})
        \union (IF AfterBedtime(tc) /\ e.type \notin WIND_DOWN_TYPES
                   THEN {"wind_down"} ELSE {})
        \union (IF AfterBedtime(tc) /\ e.difficulty # "easy"
                   THEN {"not_easy"} ELSE {})
        \union (IF AfterBedtime(tc) /\ e.dur > 15
                   THEN {"long_after_bedtime"} ELSE {})
        \union (IF e.dur < 5 \/ e.dur > 60 THEN {"duration"} ELSE {})
        \union (IF e.xp < 5 \/ e.xp > 60 THEN {"xp"} ELSE {})
        \union (IF \E j \in 1..(i - 1) : missions[j].title = e.title
                   THEN {"duplicate"} ELSE {})
        \union (IF e.title \in UnsafeTitles THEN {"unsafe"} ELSE {})

\* A validator that never adds the durations up.
PlanDurationZero(missions) == 0

\* Lines 336 and 381: total_duration over the missions.
RECURSIVE PlanDuration(_)
PlanDuration(missions) ==
    IF missions = << >> THEN 0
    ELSE Head(missions).dur + PlanDuration(Tail(missions))

\* Lines 366-369: has_micro is set by a mission that carries a micro object
\* whose duration_minutes, 0 when absent, is at most 5.
HasMicro(missions) ==
    \E i \in DOMAIN missions :
        missions[i].micro /\ Get(missions[i], "micro_minutes", 0) <= 5

\* validate_plan: (is_valid, error_list); valid when the list is empty.
validate_plan(plan_json, minutes_cap, tc) ==
    IF ~Has(plan_json, "missions")
    THEN [ok |-> FALSE, errors |-> {"structure"}]
    ELSE LET missions == plan_json["missions"]
             errors ==
                 (IF Len(missions) < 5 \/ Len(missions) > 7 THEN {"count"} ELSE {})
                 \union UNION {PlanEntryErrors(missions, i, tc) :
                                  i \in DOMAIN missions}
                 \union (IF PlanDuration(missions) > minutes_cap
                            THEN {"cap"} ELSE {})
                 \union (IF ~HasMicro(missions) THEN {"no_micro"} ELSE {})
         IN [ok |-> errors = {}, errors |-> errors]

\* The "Generate AI Plan" button: what is shown and what is persisted.
generate_plan_button(d, u, dt, minutes_cap, tc, reply) ==
    LET plan_json == generate_ai_plan_json(reply)
    IN IF DOMAIN plan_json = {} THEN [db |-> d, ret |-> "planner_failed"]
       ELSE IF ~validate_plan(plan_json, minutes_cap, tc).ok
       THEN [db |-> d, ret |-> "validation_failed"]
       ELSE [db |-> preview_plan(d, u, dt, plan_json["missions"]),
             ret |-> "previewed"]

\* ------------------------------------ the collaborator-facing handlers
TimeContexts ==
    { TimeContext(0, 10), TimeContext(0, 150), TimeContext(10, 150),
      TimeContext(20, 150), TimeContext(45, 150) }

FailureKinds == {"no_key", "exception", "status", "no_braces", "unparseable"}

ReplacementLists ==
    LET micro == [title |-> "One breath", duration_minutes |-> 3]
        e1 == SwapEntry("Evening Reflection",
                        NewMission("Gratitude note", "reflection", "easy", 5, 5, micro))
        e2 == SwapEntry("Focus Session: 25 mins",
                        NewMission("Short walk", "fitness", "easy", 5, 10, micro))
        e3 == SwapEntry("Evening Reflection",
                        NewMission("Adult quiz", "gaming", "hard", 70, 2, EmptyDict))
        e4 == SwapEntry("Quick Walk or Stretch",
                        NewMission("Early night", "sleep", "easy", 10, 10, micro))
        e5 == SwapEntry("Evening Reflection",
                        NewMission("Deep work", "study", "medium", 25, 20, micro))
        e6 == SwapEntry("Evening Reflection",
                        NewMission("Long journal", "reflection", "easy", 15, 10, micro))
    IN { << >>, << e1 >>, << e1, e2 >>, << e1, e3 >>, << e1, e2, e4 >>,
         << e5 >>, << e6 >> }

\* The swap documents the collaborator may write: any count it likes, with
\* or without the swap_count key.
ProposedDocs ==
    { [swap_count |-> c, replacements |-> r, no_swap_reason |-> ""] :
         c \in 0..4, r \in ReplacementLists }
    \union { [swap_count |-> 0, replacements |-> r,
              no_swap_reason |-> "Nothing to improve"] : r \in ReplacementLists }
    \union { [replacements |-> << >>] }

SwapReplies ==
    { Reply(k, EmptyDict) : k \in FailureKinds \union {"braces"} }
    \union { Reply("fenced", doc) : doc \in ProposedDocs }

PlanReplies ==
    LET full == << PlanEntry("Read", "reflection", TRUE),
                   PlanEntry("Revise", "study", FALSE),
                   PlanEntry("Stretch", "fitness", FALSE),
                   PlanEntry("Tidy desk", "chores", FALSE),
                   PlanEntry("Call a friend", "social", FALSE) >>
    IN { Reply(k, EmptyDict) : k \in FailureKinds \union {"braces"} }
       \union { Reply("fenced", [missions |-> full]),
                Reply("braces", [missions |-> SubSeq(full, 1, 2)]),
                Reply("braces", [notes |-> "no plan today"]) }

\* The slider of the page: 30 to 180, 60 when untouched.
MinutesCaps == {30, 60}

\* One mission of a candidate as the collaborator writes it: micro says
\* whether it carries a micro object, micro_minutes that object's
\* duration_minutes.
PlanMission(title, type, difficulty, dur, micro, micro_minutes) ==
    [title |-> title, type |-> type, difficulty |-> difficulty, xp |-> 10,
     dur |-> dur, micro |-> micro, micro_minutes |-> micro_minutes]

\* The candidates handed to validate_plan.
PlanDocs ==
    LET day(micro) ==
            << PlanMission("Read", "reflection", "easy", 5, micro, 3),
               PlanMission("Revise", "study", "medium", 5, FALSE, 0),
               PlanMission("Stretch", "fitness", "easy", 5, FALSE, 0),
               PlanMission("Tidy desk", "chores", "easy", 5, FALSE, 0),
               PlanMission("Call a friend", "social", "easy", 5, FALSE, 0) >>
        night(difficulty, dur, type) ==
            << PlanMission("Read", "reflection", "easy", 5, TRUE, 3),
               PlanMission("Early night", "sleep", difficulty, 5, FALSE, 0),
               PlanMission("Journal", "reflection", "easy", dur, FALSE, 0),
               PlanMission("Breathing", type, "easy", 5, FALSE, 0),
               PlanMission("Gratitude list", "reflection", "easy", 15, FALSE, 0) >>
        slow == << PlanMission("Read", "reflection", "easy", 10, TRUE, 10),
                   PlanMission("Revise", "study", "medium", 10, FALSE, 0),
                   PlanMission("Stretch", "fitness", "easy", 10, FALSE, 0),
                   PlanMission("Tidy desk", "chores", "easy", 10, FALSE, 0),
                   PlanMission("Call a friend", "social", "easy", 10, FALSE, 0) >>
        six(micro) ==
            << PlanMission("Pause", "reflection", "easy", 4, FALSE, 0),
               PlanMission("Revise", "study", "medium", 15, micro, 3),
               PlanMission("Stretch", "fitness", "easy", 10, FALSE, 0),
               PlanMission("Tidy desk", "chores", "easy", 10, FALSE, 0),
               PlanMission("Call a friend", "social", "easy", 10, FALSE, 0),
               PlanMission("Cook", "nutrition", "easy", 6, FALSE, 0) >>
    IN { [missions |-> day(TRUE)],
         [missions |-> day(FALSE)],
         [missions |-> night("easy", 10, "sleep")],
         [missions |-> night("easy", 20, "sleep")],
         [missions |-> night("medium", 10, "sleep")],
         [missions |-> night("easy", 10, "fitness")],
         [missions |-> slow],
         [missions |-> six(FALSE)],
         [missions |-> six(TRUE)],
         [missions |-> SubSeq(day(TRUE), 1, 2)],
         [notes |-> "no plan today"] }

\* The time contexts of the plan page: wind-down active, and two hours to the
\* cutoff.
PlanTimeContexts == { TimeContext(0, 150), TimeContext(120, 270) }

SuggestSwaps ==
    \E u \in Users, dt \in Dates, tc \in TimeContexts, reply \in SwapReplies :
        /\ last' = [op |-> "propose_swaps",
                    arg |-> [tc |-> tc, reply |-> reply,
                             pending |-> get_pending_missions(db, u, dt)],
                    ret |-> propose_swaps(db, u, dt, tc, reply),
                    rep |-> FALSE, pre |-> "", changed |-> FALSE]
        /\ UNCHANGED <<db, sess>>

ValidateSwapPlan ==
    \E u \in Users, dt \in Dates, tc \in TimeContexts, doc \in ProposedDocs :
        /\ last' = [op |-> "validate_swap_plan",
                    arg |-> [tc |-> tc, doc |-> doc],
                    ret |-> validate_swap_plan(doc, get_pending_missions(db, u, dt), tc),
                    rep |-> FALSE, pre |-> "", changed |-> FALSE]
        /\ UNCHANGED <<db, sess>>

GeneratePlan ==
    \E u \in Users, dt \in Dates, cap \in MinutesCaps, tc \in TimeContexts,
       reply \in PlanReplies :
        /\ Len(db.runs) < MaxRuns
        /\ LET res == generate_plan_button(db, u, dt, cap, tc, reply)
           IN /\ db' = res.db
              /\ last' = Call("generate_plan", reply, res.ret, res.db)
        /\ UNCHANGED sess

\* validate_plan applied to a candidate.
ValidatePlan ==
    \E cap \in MinutesCaps, tc \in PlanTimeContexts, doc \in PlanDocs :
        /\ last' = [op |-> "validate_plan",
                    arg |-> [tc |-> tc, cap |-> cap, doc |-> doc],
                    ret |-> validate_plan(doc, cap, tc),
                    rep |-> FALSE, pre |-> "", changed |-> FALSE]
        /\ UNCHANGED <<db, sess>>

NextAI ==
    \/ GenerateDailyMissions
    \/ SuggestSwaps
    \/ ValidateSwapPlan
    \/ GeneratePlan
    \/ ValidatePlan

SpecAI == Init /\ [][NextAI]_vars

\* ------------------------------------------------ streak shields, build_plan
\* Bounds of the streak specification.
MaxRecoveries == 4
MaxCompletions == 4

\* The minutes_cap values a caller passes (the page's slider starts at 30).
PlannerCaps == {30, 60}

\* datetime.now() at three calls, as ISO (year, week); a later tick is a
\* later instant.
Clock == << [year |-> 2025, week |-> 10], [year |-> 2025, week |-> 11],
            [year |-> 2026, week |-> 10] >>

\* Lines 19-25: every recovery assignment of the day enters the plan.
RECURSIVE PlanRecovery(_, _, _, _)
PlanRecovery(d, u, dt, i) ==
    IF i > Len(d.assigns) THEN << >>
    ELSE LET a == d.assigns[i]
             mission == d.missions[a.mission]
             duration == IF mission.dur = 0 THEN 10 ELSE mission.dur
         IN IF a.user = u /\ a.date = dt /\ mission.recovery
            THEN << [assign |-> i, duration |-> duration] >>
                 \o PlanRecovery(d, u, dt, i + 1)
            ELSE PlanRecovery(d, u, dt, i + 1)

RECURSIVE PlanTotal(_)
PlanTotal(planned) ==
    IF planned = << >> THEN 0
    ELSE Head(planned).duration + PlanTotal(Tail(planned))

\* Lines 27-38: the other assignments, while the cap and the variety allow.
RECURSIVE PlanOthers(_, _, _, _, _, _, _)
PlanOthers(d, u, dt, minutes_cap, i, planned, type_counts) ==
    IF i > Len(d.assigns) THEN planned
    ELSE LET a == d.assigns[i]
             mission == d.missions[a.mission]
             duration == IF mission.dur = 0 THEN 15 ELSE mission.dur
             counted == [type_counts EXCEPT ![mission.type] = @ + 1]
         IN IF a.user # u \/ a.date # dt \/ mission.recovery
            THEN PlanOthers(d, u, dt, minutes_cap, i + 1, planned, type_counts)
            ELSE IF PlanTotal(planned) + duration <= minutes_cap
            THEN IF counted[mission.type] <= 2
                 THEN PlanOthers(d, u, dt, minutes_cap, i + 1,
                                 Append(planned, [assign |-> i,
                                                  duration |-> duration]),
                                 counted)
                 ELSE PlanOthers(d, u, dt, minutes_cap, i + 1, planned, counted)
            ELSE PlanOthers(d, u, dt, minutes_cap, i + 1, planned, type_counts)

build_plan(d, u, dt, minutes_cap) ==
    PlanOthers(d, u, dt, minutes_cap, 1, PlanRecovery(d, u, dt, 1),
               [t \in {d.missions[j].type : j \in DOMAIN d.missions} |-> 0])

reset_shields_adding(d, now) ==
    IF ~d.profile.exists THEN d
    ELSE [d EXCEPT !.profile.shields = @ + 2, !.profile.last_reset = now]

\* reset_shields_if_new_week at tick now of the clock; last_reset = 0 is
\* last_shield_reset_at NULL.
reset_shields_if_new_week(d, now) ==
    IF ~d.profile.exists THEN d
    ELSE IF d.profile.last_reset = 0
         \/ Clock[d.profile.last_reset].week # Clock[now].week
    THEN [d EXCEPT !.profile.shields = 2, !.profile.last_reset = now]
    ELSE d

\* Lines 77-79 of complete_recovery_mission: the first commit.
RecoveryFirstCommit(d, a) ==
    [d EXCEPT !.assigns[a].status = "completed", !.assigns[a].shield = TRUE]

RecoverySecondCommitUnfloored(d) ==
    IF d.profile.exists
    THEN [d EXCEPT !.profile.streak = @ + 1, !.profile.shields = @ - 1]
    ELSE d

\* Lines 82-86: the profile update and the second commit.
RecoverySecondCommit(d) ==
    IF d.profile.exists
    THEN [d EXCEPT !.profile.streak = @ + 1,
                   !.profile.shields = IF @ - 1 > 0 THEN @ - 1 ELSE 0]
    ELSE d

\* The commits of complete_recovery_mission that can fail.
RecoveryFaults == {"none", "second_commit"}

\* complete_recovery_mission when the store fails at the commit named by
\* fault: what the first commit wrote stays.
recovery_completion(d, a, fault) ==
    IF a \notin DOMAIN d.assigns THEN [db |-> d, ret |-> "none"]
    ELSE IF fault = "second_commit" /\ d.profile.exists
    THEN [db |-> RecoveryFirstCommit(d, a), ret |-> "StoreError"]
    ELSE [db |-> RecoverySecondCommit(RecoveryFirstCommit(d, a)),
          ret |-> "none"]

ResetShields ==
    \E now \in DOMAIN Clock :
        /\ now >= db.profile.last_reset
        /\ db' = reset_shields_if_new_week(db, now)
        /\ last' = Call("reset_shields_if_new_week", now, "none", db')
        /\ UNCHANGED sess

StreakCheck ==
    \E u \in Users, today \in Dates :
        /\ Len(db.missions) < MaxRecoveries
        /\ LET res == check_and_handle_streak_break(db, u, today)
           IN /\ db' = res.db
              /\ last' = Call("check_and_handle_streak_break", 0, res.ret, res.db)
        /\ UNCHANGED sess

RecoveryCompletion ==
    \E a \in AssignmentIds, fault \in RecoveryFaults :
        /\ db.profile.streak < MaxCompletions
        /\ LET res == recovery_completion(db, a, fault)
           IN /\ db' = res.db
              /\ last' = CompletionCall("complete_recovery_mission", a,
                                        res.ret, res.db)
        /\ UNCHANGED sess

BuildPlan ==
    \E u \in Users, dt \in Dates, minutes_cap \in PlannerCaps :
        /\ db' = db
        /\ last' = Call("build_plan", minutes_cap,
                        build_plan(db, u, dt, minutes_cap), db)
        /\ UNCHANGED sess

NextStreak ==
    \/ SaveSettings
    \/ GenerateDailyMissions
    \/ ResetShields
    \/ StreakCheck
    \/ RecoveryCompletion
    \/ BuildPlan

SpecStreak == Init /\ [][NextStreak]_vars

\* ---------------------------- Missions page: regenerate and Apply swaps
\* Bounds of the page specification.
MaxPageRuns == 3
MaxPageMissions == 4

\* What apply_swaps reads of swap_json["replacements"] (lines 1052-1095).
RECURSIVE ReplacementsOf(_)
ReplacementsOf(replacements) ==
    IF replacements = << >> THEN << >>
    ELSE LET repl == Head(replacements)
             nm   == repl.new_mission
         IN << Replacement(repl.replace_title, nm.title, nm.type, nm.xp_reward,
                           nm.duration_minutes, Has(nm.micro, "title")) >>
            \o ReplacementsOf(Tail(replacements))

\* The clock of a later run of the script: no more minutes are left than
\* before.
Later(tc_render, tc_click) ==
    /\ tc_click.effective_mins_to_bedtime <= tc_render.effective_mins_to_bedtime
    /\ tc_click.effective_mins_to_midnight <= tc_render.effective_mins_to_midnight

\* Lines 415-417: the Regenerate button, enabled while no plan is assigned;
\* sess[s].pc = "regen_confirm" is st.session_state.show_regen_confirm.
RegenerateButton ==
    \E s \in {1}, u \in Users, today \in Dates :
        /\ sess[s].pc = "idle"
        /\ FirstAssigned(db, u, today) = 0
        /\ sess' = [sess EXCEPT ![s].pc = "regen_confirm"]
        /\ last' = Call("btn_regenerate", 0, "none", db)
        /\ UNCHANGED db

\* Lines 419-429: "Yes, regenerate"; assigned_plan is the query of 407-412
\* in this run of the script.
RegenYes ==
    \E s \in {1}, u \in Users, today \in Dates :
        /\ sess[s].pc = "regen_confirm"
        /\ LET assigned_plan == FirstAssigned(db, u, today)
           IN /\ db' = IF assigned_plan # 0
                       THEN [db EXCEPT !.runs[assigned_plan].status = "superseded"]
                       ELSE db
              /\ last' = Call("btn_regen_yes", assigned_plan, "none", db')
        /\ sess' = [sess EXCEPT ![s].pc = "idle"]

\* Lines 430-433: Cancel clears the flag, then st.run() does not exist.
RegenCancel ==
    \E s \in {1} :
        /\ sess[s].pc = "regen_confirm"
        /\ sess' = [sess EXCEPT ![s].pc = "idle"]
        /\ last' = Call("btn_regen_cancel", 0, "AttributeError", db)
        /\ UNCHANGED db

PagePreview ==
    \E u \in Users, dt \in Dates, plan \in Candidates :
        /\ Len(db.runs) < MaxPageRuns
        /\ db' = preview_plan(db, u, dt, plan)
        /\ last' = Call("preview_plan", Len(db.runs) + 1, "run", db')
        /\ UNCHANGED sess

\* Lines 373-391: the Apply swaps button.  The script that rendered the
\* button validated swap_preview at tc_render; the click runs apply_swaps,
\* which computes its own time context (missions.py:1016) at tc_click.
ApplySwapsButton ==
    \E u \in Users, today \in Dates, swap_preview \in ProposedDocs,
       tc_render \in TimeContexts, tc_click \in TimeContexts :
        /\ Len(db.runs) < MaxPageRuns
        /\ Has(swap_preview, "swap_count")
        /\ Len(db.missions) + Len(swap_preview.replacements) <= MaxPageMissions
        /\ get_pending_missions(db, u, today) # << >>
        /\ validate_swap_plan(swap_preview, get_pending_missions(db, u, today),
                              tc_render).ok
        /\ swap_preview.swap_count # 0
        /\ Later(tc_render, tc_click)
        /\ db' = apply_swaps(db, u, today, ReplacementsOf(swap_preview.replacements))
        /\ last' = [op |-> "btn_apply_swaps", arg |-> Len(db.runs) + 1,
                    swap_limit |-> SwapLimit(EffectiveMins(tc_click)),
                    ret |-> "none", rep |-> FALSE, pre |-> "",
                    changed |-> TRUE]
        /\ UNCHANGED sess

NextPage ==
    \/ GenerateDailyMissions
    \/ PagePreview
    \/ AssignPlan
    \/ RegenerateButton
    \/ RegenYes
    \/ RegenCancel
    \/ ApplySwapsButton

SpecPage == Init /\ [][NextPage]_vars

\* --------------------------------------------------------------- claims
RunsOf(u, dt) ==
    {r \in DOMAIN db.runs : /\ db.runs[r].user = u /\ db.runs[r].date = dt
                            /\ db.runs[r].kind = "full_plan"}

AssignsOfRun(d, r) == {a \in DOMAIN d.assigns : d.assigns[a].run = r}

C2_Supersession ==
    [][ \A r \in DOMAIN db.runs :
          ( /\ last'.op = "assign" /\ last'.arg = r
            /\ last'.ret # "CommitError"
            /\ db.runs[r].status = "previewed"
            /\ ExistingAssigned(db, db.runs[r].user, db.runs[r].date) # {} )
          => /\ db'.runs[r].status = "assigned"
             /\ \A e \in ExistingAssigned(db, db.runs[r].user, db.runs[r].date) :
                  /\ db'.runs[e].status = "superseded"
                  /\ \A a \in AssignsOfRun(db, e) :
                       /\ db.assigns[a].status = "pending"
                            => db'.assigns[a].status = "archived"
                       /\ db.assigns[a].status = "completed"
                            => db'.assigns[a] = db.assigns[a] ]_vars

\* C3: assign called on a PlanRun whose status is already "assigned" returns
\* false and leaves every PlanRun, Mission and Assignment as it was.
C3_AssignIdempotent ==
    [][ ( /\ last'.op = "assign"
          /\ db.runs[last'.arg].status = "assigned" )
        => /\ last'.ret = "false"
           /\ db' = db ]_vars

\* The same run was assigned, then assign was called on it again.
C3_Witness ==
    /\ last.op = "assign" /\ last.ret = "false"
    /\ db.runs[last.arg].status = "assigned"

\* C4: an Assignment's status only moves from pending to completed or from
\* pending to archived: one that is completed or archived keeps its status,
\* so an archived Assignment is never completed.
C4_StatusMonotone ==
    [][ \A a \in DOMAIN db.assigns :
          db.assigns[a].status \in {"completed", "archived"}
          => db'.assigns[a].status = db.assigns[a].status ]_vars

\* C5: after complete has been called twice in a row on an Assignment that
\* was pending, the ledger holds exactly one grant for it, and the second
\* call changed nothing in the store.
C5_CompleteTwice ==
    ( /\ last.op = "complete_assignment"
      /\ last.rep
      /\ last.pre = "pending" )
    => /\ db.assigns[last.arg].grants = 1
       /\ ~last.changed

\* C6: after the first complete_assignment call on a pending Assignment the
\* Assignment is completed and the reward ledger was invoked exactly once
\* for it.
C6_FirstCompletionGrants ==
    ( /\ last.op = "complete_assignment"
      /\ ~last.rep
      /\ last.pre = "pending"
      /\ last.ret # "ValueError" )
    => /\ db.assigns[last.arg].status = "completed"
       /\ db.assigns[last.arg].grants = 1

\* C7: a completion call that fails after it set the status (in the ledger
\* call, the proof stamping or the audit append) leaves nothing behind: the
\* store is as it was before the call.
C7_CompletionAtomic ==
    ( /\ last.op \in {"complete_mission", "mark_micro_completed",
                      "complete_assignment"}
      /\ last.ret \in {"StoreError", "TypeError", "not_ok"} )
    => ~last.changed

\* C8: when two sessions ran assign at the same time for two different
\* previewed PlanRuns of one user and date and both calls have returned,
\* exactly one of the two runs is "assigned".
C8_ExactlyOneAssigned ==
    \A s \in Sessions :
        LET t == Other(s)
        IN ( /\ sess[s].pc = "idle" /\ sess[t].pc = "idle"
             /\ sess[s].raced /\ sess[t].raced
             /\ sess[s].run # sess[t].run
             /\ db.runs[sess[s].run].user = db.runs[sess[t].run].user
             /\ db.runs[sess[s].run].date = db.runs[sess[t].run].date )
           => Cardinality({r \in {sess[s].run, sess[t].run} :
                              db.runs[r].status = "assigned"}) = 1

\* C9: an assign call that fails part-way (it raises in the loop, or its
\* commit fails) leaves the store as it was: the run is not assigned, no
\* Mission or Assignment of it exists, and the earlier run is still assigned
\* with its Assignments untouched.
C9_AssignAllOrNothing ==
    ( /\ last.op = "assign"
      /\ last.ret \in {"UnboundLocalError", "CommitError"} )
    => /\ ~last.changed
       /\ db.runs[last.arg].status # "assigned"
       /\ AssignsOfRun(db, last.arg) = {}

\* An assign failed while an earlier run of the same user and date was
\* assigned: the supersession it had started is not in the store.
C9_Witness ==
    /\ last.op = "assign"
    /\ last.ret \in {"UnboundLocalError", "CommitError"}
    /\ \E e \in RunsOf(db.runs[last.arg].user, db.runs[last.arg].date) :
          e # last.arg /\ db.runs[e].status = "assigned"

\* C10: at no moment does the store hold a swap PlanRun without one Assignment
\* for each of its replacements, so a reader that interleaves with
\* apply_swaps sees every swap whole.
C10_SwapsWhole ==
    \A r \in DOMAIN db.runs :
        db.runs[r].kind = "swap"
        => Cardinality(AssignsOfRun(db, r)) = Len(db.runs[r].swaps)

\* C11: a PlanRun's status only moves previewed -> assigned -> superseded;
\* a superseded run stays superseded whatever assign call is made, one on
\* the superseded run itself included.
C11_RunStatusMonotone ==
    [][ \A r \in DOMAIN db.runs :
          \/ db'.runs[r].status = db.runs[r].status
          \/ db.runs[r].status = "previewed" /\ db'.runs[r].status = "assigned"
          \/ db.runs[r].status = "assigned" /\ db'.runs[r].status = "superseded"
      ]_vars

\* C12: of two PlanRuns of the same user, date and kind, the one created
\* later has the greater version.
C12_VersionsIncrease ==
    \A r1, r2 \in DOMAIN db.runs :
        ( /\ r1 < r2
          /\ db.runs[r1].user = db.runs[r2].user
          /\ db.runs[r1].date = db.runs[r2].date
          /\ db.runs[r1].kind = db.runs[r2].kind )
        => db.runs[r1].version < db.runs[r2].version

\* C13: preview_plan adds exactly one PlanRun, 'previewed', whose version is
\* the assigned full-day run's version plus one, or 1 when the user and date
\* have no assigned run; every Mission, Assignment and earlier PlanRun is
\* left as it was.
C13_PreviewFrame ==
    [][ last'.op = "preview_plan"
        => LET n   == Len(db.runs)
               new == db'.runs[n + 1]
               cur == {r \in RunsOf(new.user, new.date) :
                          db.runs[r].status = "assigned"}
           IN /\ Len(db'.runs) = n + 1
              /\ new.status = "previewed" /\ new.kind = "full_plan"
              /\ cur = {} => new.version = 1
              /\ \A r \in cur : new.version = db.runs[r].version + 1
              /\ \A r \in 1..n : db'.runs[r] = db.runs[r]
              /\ db'.missions = db.missions
              /\ db'.assigns = db.assigns
              /\ db'.stats = db.stats /\ db'.profile = db.profile ]_vars

\* A plan was previewed while another run of the day was assigned.
C13_Witness ==
    /\ last.op = "preview_plan"
    /\ db.runs[last.arg].status = "previewed"
    /\ db.runs[last.arg].version = 2
    /\ \E r \in RunsOf(1, 1) : db.runs[r].status = "assigned"

\* The number of plan entries that carry a micro companion.
RECURSIVE MicroCount(_)
MicroCount(plan) ==
    IF plan = <<>> THEN 0
    ELSE (IF Head(plan).micro THEN 1 ELSE 0) + MicroCount(Tail(plan))

\* C14: after an assign call on a run that was not yet assigned (and with the
\* store not failing), the run is 'assigned' and there are exactly n + k
\* Assignments linked to it, all pending, each with a Mission of its own,
\* where n is the number of entries of the candidate and k the number of
\* entries with a micro companion.
C14_AssignCreates ==
    ( /\ last.op = "assign"
      /\ last.ret \notin {"false", "CommitError"} )
    => LET r    == last.arg
           plan == db.runs[r].plan
           mine == AssignsOfRun(db, r)
       IN /\ db.runs[r].status = "assigned"
          /\ Cardinality(mine) = Len(plan) + MicroCount(plan)
          /\ Cardinality({db.assigns[a].mission : a \in mine}) = Cardinality(mine)
          /\ \A a \in mine : db.assigns[a].status = "pending"

\* C15: assign on a previewed run whose candidate has no missions returns
\* true, creates no Mission and no Assignment, and marks the run 'assigned'
\* (the store not failing).
C15_EmptyAssign ==
    [][ ( /\ last'.op = "assign"
          /\ last'.ret # "CommitError"
          /\ db.runs[last'.arg].status = "previewed"
          /\ db.runs[last'.arg].plan = <<>> )
        => /\ last'.ret = "true"
           /\ db'.missions = db.missions
           /\ Len(db'.assigns) = Len(db.assigns)
           /\ db'.runs[last'.arg].status = "assigned" ]_vars

\* The first run of the day, with an empty candidate, was assigned.
C15_Witness ==
    /\ last.op = "assign" /\ last.ret = "true"
    /\ db.runs[last.arg].plan = <<>>
    /\ db.runs[last.arg].status = "assigned"
    /\ \A r \in DOMAIN db.runs : r # last.arg => db.runs[r].kind = "swap"

\* The target titles of a swap run.
Targets(run) == {run.swaps[i].replace_title : i \in DOMAIN run.swaps}

\* C16: apply_swaps leaves every other PlanRun as it was, and the only
\* Assignments it changes are pending ones whose Mission title is the target
\* of one of its replacements: those become 'archived' and carry the swap
\* stamp; every other Assignment is left as it was.
C16_SwapFrame ==
    [][ last'.op = "apply_swaps"
        => LET rid == last'.arg
           IN /\ \A r \in DOMAIN db.runs : db'.runs[r] = db.runs[r]
              /\ \A a \in DOMAIN db.assigns :
                   \/ db'.assigns[a] = db.assigns[a]
                   \/ /\ db.assigns[a].status = "pending"
                      /\ db.missions[db.assigns[a].mission].title
                            \in Targets(db'.runs[rid])
                      /\ db'.assigns[a].status = "archived"
                      /\ {"swapped_out", "swap_plan_run_id"}
                            \subseteq db'.assigns[a].proof ]_vars

\* A swap archived its target while a full-day run of the day stayed assigned.
C16_Witness ==
    /\ last.op = "apply_swaps"
    /\ \E r \in RunsOf(1, 1) : db.runs[r].status = "assigned"
    /\ \E a \in DOMAIN db.assigns :
          /\ db.assigns[a].status = "archived"
          /\ "swapped_out" \in db.assigns[a].proof

\* C17: after apply_swaps, the swap run has one pending Assignment per
\* replacement and one more for every replacement that carries a micro
\* companion, each with a Mission of its own.
C17_SwapCreates ==
    last.op = "apply_swaps"
    => LET run  == db.runs[last.arg]
           mine == AssignsOfRun(db, last.arg)
       IN /\ Cardinality(mine) = Len(run.swaps) + MicroCount(run.swaps)
          /\ \A a \in mine : db.assigns[a].status = "pending"

\* The ceiling the minutes remaining allow.
Ceiling(mins) == IF mins < 15 THEN 1 ELSE IF mins < 30 THEN 2 ELSE 3

\* C18: whatever the time context and the swap document, validate_swap_plan
\* rejects a document whose swap_count is greater than the ceiling of the
\* minutes remaining (1 under 15 minutes, 2 under 30, 3 otherwise).
C18_SwapCeiling ==
    ( /\ last.op = "validate_swap_plan"
      /\ Has(last.arg.doc, "swap_count")
      /\ last.arg.doc.swap_count > Ceiling(EffectiveMins(last.arg.tc)) )
    => ~last.ret.ok

\* A document with two well-formed replacements of pending missions that fit
\* the ten minutes left is rejected for its count alone.
C18_Witness ==
    /\ last.op = "validate_swap_plan"
    /\ last.arg.tc = TimeContext(10, 150)
    /\ Has(last.arg.doc, "swap_count")
    /\ last.arg.doc.swap_count = 2
    /\ last.ret.errors = {"limit"}

\* C19: the document propose_swaps returns has swap_count at most the ceiling
\* of the minutes remaining, whatever the collaborator returned and however
\* many missions are pending.
C19_ProposalClamped ==
    last.op = "propose_swaps"
    => last.ret.swap_count <= Ceiling(EffectiveMins(last.arg.tc))

\* With ten minutes left and two missions pending the collaborator asked for
\* four swaps and the returned document has one.
C19_Witness ==
    /\ last.op = "propose_swaps"
    /\ last.arg.tc = TimeContext(10, 150)
    /\ Len(last.arg.pending) = 2
    /\ last.arg.reply.kind = "fenced"
    /\ Has(last.arg.reply.doc, "swap_count")
    /\ last.arg.reply.doc.swap_count = 4
    /\ last.ret.swap_count = 1

\* C20: when the collaborator fails, times out or returns unparseable
\* content, propose_swaps returns a document with no swap and a reason, the
\* "Generate AI Plan" button reports the failure, and neither persists a
\* PlanRun or changes a Mission or an Assignment.
C20_NoResultProposesNothing ==
    /\ ( /\ last.op = "propose_swaps"
         /\ last.arg.reply.kind \in FailureKinds )
       => /\ last.ret.swap_count = 0
          /\ last.ret.replacements = << >>
          /\ last.ret.no_swap_reason # ""
          /\ ~last.changed
    /\ ( /\ last.op = "generate_plan"
         /\ last.arg.kind \in FailureKinds )
       => /\ last.ret = "planner_failed"
          /\ ~last.changed

\* The collaborator timed out while a mission was pending.
C20_Witness ==
    /\ last.op = "propose_swaps"
    /\ last.arg.reply.kind = "exception"
    /\ last.arg.pending # << >>
    /\ last.ret.no_swap_reason = "AI swap assistant unavailable."

\* The durations of the replacement missions, added up by position.
RECURSIVE C21_Sum(_, _)
C21_Sum(replacements, i) ==
    IF i > Len(replacements) THEN 0
    ELSE replacements[i].new_mission.duration_minutes
         + C21_Sum(replacements, i + 1)

\* The horizon that binds: the minutes to the cutoff before wind-down, the
\* minutes to midnight once wind-down is active.
C21_Horizon(tc) ==
    IF tc.effective_mins_to_bedtime = 0 THEN tc.effective_mins_to_midnight
    ELSE tc.effective_mins_to_bedtime

\* C21: validate_swap_plan accepts a document with swap_count > 0 only if the
\* summed duration of its replacement missions does not exceed the binding
\* horizon: the buffered minutes to the cutoff before wind-down, the buffered
\* minutes to midnight once wind-down is active.
C21_SwapHorizon ==
    ( /\ last.op = "validate_swap_plan"
      /\ last.ret.ok
      /\ Has(last.arg.doc, "swap_count")
      /\ last.arg.doc.swap_count > 0 )
    => C21_Sum(last.arg.doc.replacements, 1) <= C21_Horizon(last.arg.tc)

\* A 15-minute replacement is accepted before wind-down with 20 minutes left
\* to the cutoff.
C21_Witness ==
    /\ last.op = "validate_swap_plan"
    /\ last.ret.ok
    /\ last.arg.doc.swap_count = 1
    /\ C21_Sum(last.arg.doc.replacements, 1) = 15
    /\ last.arg.tc = TimeContext(20, 150)

\* C22: if effective_mins_to_bedtime is 0, every candidate accepted by
\* validate_plan and every swap document accepted by validate_swap_plan
\* contains only missions whose category is reflection or sleep, whose
\* difficulty is easy and whose duration is at most 15 minutes.
C22_WindDown ==
    /\ ( /\ last.op = "validate_plan"
         /\ last.arg.tc.effective_mins_to_bedtime = 0
         /\ last.ret.ok )
       => \A i \in DOMAIN last.arg.doc.missions :
            LET m == last.arg.doc.missions[i]
            IN /\ m.type \in {"reflection", "sleep"}
               /\ m.difficulty = "easy"
               /\ m.dur <= 15
    /\ ( /\ last.op = "validate_swap_plan"
         /\ last.arg.tc.effective_mins_to_bedtime = 0
         /\ last.ret.ok )
       => \A i \in DOMAIN last.arg.doc.replacements :
            LET m == last.arg.doc.replacements[i].new_mission
            IN /\ m.type \in {"reflection", "sleep"}
               /\ m.difficulty = "easy"
               /\ m.duration_minutes <= 15

\* A candidate of five easy reflection and sleep missions is accepted while
\* wind-down is active.
C22_Witness ==
    /\ last.op = "validate_plan"
    /\ last.arg.tc.effective_mins_to_bedtime = 0
    /\ last.ret.ok
    /\ Len(last.arg.doc.missions) = 5

\* C23: validate_plan reports the missing-micro-option error exactly when no
\* mission of the candidate, neither a top-level mission nor a micro
\* companion, has a duration of at most 5 minutes.
C23_MissingMicro ==
    ( /\ last.op = "validate_plan"
      /\ Has(last.arg.doc, "missions") )
    => ( "no_micro" \in last.ret.errors
         <=> ~ \E i \in DOMAIN last.arg.doc.missions :
                 LET m == last.arg.doc.missions[i]
                 IN \/ m.dur <= 5
                    \/ m.micro /\ m.micro_minutes <= 5 )

\* The candidate of scenario A: six missions with allowed categories, unique
\* safe titles and rewards in range, 55 minutes in all, one of them a
\* 4-minute reflection mission.
C24_ScenarioA(doc) ==
    /\ Has(doc, "missions")
    /\ Len(doc.missions) = 6
    /\ \A i \in 1..6 :
         /\ doc.missions[i].type \in ALLOWED_MISSION_TYPES
         /\ doc.missions[i].title \notin UnsafeTitles
         /\ doc.missions[i].xp \in 5..60
         /\ \A j \in 1..6 : i # j => doc.missions[i].title # doc.missions[j].title
    /\ doc.missions[1].dur + doc.missions[2].dur + doc.missions[3].dur
       + doc.missions[4].dur + doc.missions[5].dur + doc.missions[6].dur = 55
    /\ \E i \in 1..6 : doc.missions[i].type = "reflection" /\ doc.missions[i].dur = 4

\* C24: with minutes_cap = 60 and effective_mins_to_bedtime = 120, the
\* candidate of scenario A is accepted by validate_plan with an empty error
\* list.
C24_ScenarioAccepted ==
    ( /\ last.op = "validate_plan"
      /\ last.arg.cap = 60
      /\ last.arg.tc.effective_mins_to_bedtime = 120
      /\ C24_ScenarioA(last.arg.doc) )
    => last.ret = [ok |-> TRUE, errors |-> {}]

\* The durations of a candidate's missions, added up by position.
RECURSIVE C25_Sum(_, _)
C25_Sum(missions, i) ==
    IF i > Len(missions) THEN 0 ELSE missions[i].dur + C25_Sum(missions, i + 1)

\* C25: for every candidate whose mission durations sum to more than
\* minutes_cap, validate_plan returns ok = false with an error citing the
\* total duration.
C25_OverCap ==
    ( /\ last.op = "validate_plan"
      /\ Has(last.arg.doc, "missions")
      /\ C25_Sum(last.arg.doc.missions, 1) > last.arg.cap )
    => /\ ~last.ret.ok
       /\ "cap" \in last.ret.errors

\* A 40-minute candidate that is otherwise in order is refused under a cap of
\* 30 minutes for its total duration alone.
C25_Witness ==
    /\ last.op = "validate_plan"
    /\ last.arg.cap = 30
    /\ C25_Sum(last.arg.doc.missions, 1) = 40
    /\ ~last.ret.ok
    /\ last.ret.errors = {"cap"}

\* The micro Assignments that assign created: linked to a full_plan PlanRun.
C26_AssignMicros ==
    {a \in DOMAIN db.assigns :
        /\ db.assigns[a].run \in DOMAIN db.runs
        /\ db.runs[db.assigns[a].run].kind = "full_plan"
        /\ db.missions[db.assigns[a].mission].type = "micro"}

\* C26: assign records the parent's category in the metadata of each micro
\* Mission it creates, and while wind-down is active mark_micro_completed on
\* such a pending micro Assignment succeeds when that category is reflection
\* or sleep and the duration is at most 15 minutes, and otherwise is refused
\* and performs no mutation: the status stays pending, no reward is granted
\* and no audit record is written.
C26_WindDownGate ==
    /\ ( /\ last.op = "assign"
         /\ last.ret \notin {"false", "CommitError"} )
       => \A i \in DOMAIN db.runs[last.arg].plan :
            LET e == db.runs[last.arg].plan[i]
            IN e.micro =>
                 \E a \in C26_AssignMicros :
                    /\ db.assigns[a].run = last.arg
                    /\ db.assigns[a].status = "pending"
                    /\ db.missions[db.assigns[a].mission].parent_type = e.type
    /\ ( /\ last.op = "mark_micro_completed"
         /\ last.wind_down
         /\ ~last.rep
         /\ last.pre = "pending"
         /\ last.arg \in C26_AssignMicros )
       => LET m == db.missions[db.assigns[last.arg].mission]
          IN IF /\ m.parent_type \in {"reflection", "sleep"}
                /\ m.dur <= 15
             THEN last.ret # "refused"
             ELSE /\ last.ret = "refused"
                  /\ ~last.changed
                  /\ db.assigns[last.arg].status = "pending"
                  /\ db.assigns[last.arg].grants = 0
                  /\ AuditLog("mission_micro_completed", last.arg) \notin db.audit

\* All the experience of the ledger, levels counted at 100 each.
LedgerTotal(d) ==
    LET RECURSIVE Sum(_)
        Sum(S) == IF S = {} THEN 0
                  ELSE LET t == CHOOSE x \in S : TRUE
                       IN d.stats[t].xp + 100 * (d.stats[t].level - 1)
                          + Sum(S \ {t})
    IN Sum(STATS_TYPES)

\* The rewards of the micro Assignments of user u and day dt that are
\* completed, from Assignment i on.
RECURSIVE C27_Spent(_, _, _, _)
C27_Spent(d, u, dt, i) ==
    IF i > Len(d.assigns) THEN 0
    ELSE (IF /\ d.assigns[i].user = u /\ d.assigns[i].date = dt
             /\ d.assigns[i].status = "completed"
             /\ d.missions[d.assigns[i].mission].type = "micro"
          THEN d.missions[d.assigns[i].mission].xp ELSE 0)
         + C27_Spent(d, u, dt, i + 1)

\* min(reward, cap - spent), floored at 0.
C27_Expected(d, a) ==
    LET reward == d.missions[d.assigns[a].mission].xp
        room   == MICRO_DAILY_CAP - C27_Spent(d, d.assigns[a].user,
                                              d.assigns[a].date, 1)
        least  == IF reward < room THEN reward ELSE room
    IN IF least < 0 THEN 0 ELSE least

\* C27: each micro completion awards min(the mission's reward, cap minus the
\* sum of the rewards of that user's micro Assignments already completed
\* that day), floored at 0, with cap = 10; a completion whose award is
\* clamped to zero is still recorded as completed.
C27_MicroAwardCapped ==
    [][ \A a \in DOMAIN db.assigns :
          ( /\ last'.op = "mark_micro_completed" /\ last'.arg = a
            /\ last'.ret = "ok"
            /\ db.assigns[a].status = "pending" )
          => /\ db'.assigns[a].status = "completed"
             /\ LedgerTotal(db') - LedgerTotal(db) = C27_Expected(db, a) ]_vars

\* A micro completion after the day's cap was used up: recorded as
\* completed, with no award.
C27_Witness ==
    /\ last.op = "mark_micro_completed" /\ last.ret = "ok"
    /\ ~last.rep /\ last.pre = "pending"
    /\ db.assigns[last.arg].status = "completed"
    /\ db.assigns[last.arg].grants = 0
    /\ C27_Spent(db, db.assigns[last.arg].user, db.assigns[last.arg].date, 1) > MICRO_DAILY_CAP

\* C28: on the first completion of a pending Assignment, the reward granted
\* and recorded in the proof blob equals the mission's base reward plus the
\* fixed micro bonus when the mission's category is exactly micro or its
\* duration is in (0,5] minutes, and equals the base reward alone otherwise.
C28_RewardWithBonus ==
    [][ \A a \in DOMAIN db.assigns :
          ( /\ last'.op = "complete_assignment" /\ last'.arg = a
            /\ last'.ret # "ValueError"
            /\ db.assigns[a].status = "pending" )
          => LET m == db.missions[db.assigns[a].mission]
                 bonus == IF m.type = "micro" \/ (0 < m.dur /\ m.dur <= MICRO_MAX_MINUTES)
                          THEN MICRO_BONUS_XP ELSE 0
             IN /\ LedgerTotal(db') - LedgerTotal(db) = m.xp + bonus
                /\ "earned_xp" \in db'.assigns[a].proof ]_vars

\* C29: complete called with an assignment id that does not exist, or that
\* belongs to a user other than the requester, fails with a not-found error
\* and changes no Assignment, no reward and no audit record.
C29_NotFound ==
    /\ ( /\ last.op = "complete_assignment"
         /\ \/ last.arg \notin DOMAIN db.assigns
            \/ db.assigns[last.arg].user # last.user )
       => /\ last.ret = "ValueError"
          /\ ~last.changed
    /\ ( /\ last.op = "complete_mission"
         /\ last.arg \notin DOMAIN db.assigns )
       => /\ last.ret = "ValueError"
          /\ ~last.changed

\* C30: in every reachable state there is at most one Assignment per (user,
\* mission) pair, for any sequence of apply_plan, assign, apply_swaps, party
\* and recovery operations, including apply_plan called for the same mission
\* on different dates.
C30_OneAssignmentPerMission ==
    \A a, b \in DOMAIN db.assigns :
        ( /\ db.assigns[a].user = db.assigns[b].user
          /\ db.assigns[a].mission = db.assigns[b].mission )
        => a = b

\* C31: the plan build_plan returns has a total duration of at most
\* minutes_cap, also when recovery missions are among the assignments.
C31_WithinCap ==
    last.op = "build_plan" => PlanTotal(last.ret) <= last.arg

\* C32: completing a pending recovery Assignment sets it completed with the
\* streak-shield flag, adds exactly 1 to the streak counter and takes 1 from
\* the shield counter, but never below 0.
C32_RecoveryCompleted ==
    [][ \A a \in DOMAIN db.assigns :
          ( /\ last'.op = "complete_recovery_mission" /\ last'.arg = a
            /\ last'.ret = "none"
            /\ db.assigns[a].status = "pending"
            /\ db.missions[db.assigns[a].mission].recovery )
          => /\ db'.assigns[a].status = "completed"
             /\ db'.assigns[a].shield
             /\ db'.profile.streak = db.profile.streak + 1
             /\ db'.profile.shields =
                    IF db.profile.shields = 0 THEN 0
                    ELSE db.profile.shields - 1 ]_vars

\* A pending recovery Assignment was completed when no shield was left.
C32_Witness ==
    /\ last.op = "complete_recovery_mission" /\ last.ret = "none"
    /\ ~last.rep /\ last.pre = "pending"
    /\ db.missions[db.assigns[last.arg].mission].recovery
    /\ db.profile.streak = 3 /\ db.profile.shields = 0

\* C33: complete_recovery_mission on an already completed recovery
\* Assignment is a no-op: the streak and the shield counter stay as they are.
C33_SecondCallNoOp ==
    [][ \A a \in DOMAIN db.assigns :
          ( /\ last'.op = "complete_recovery_mission" /\ last'.arg = a
            /\ db.assigns[a].status = "completed"
            /\ db.missions[db.assigns[a].mission].recovery )
          => db' = db ]_vars

\* C34: no failure of complete_recovery_mission leaves the Assignment
\* completed and flagged while the streak and the shield counter are not
\* updated.
C34_OneTransaction ==
    ( /\ last.op = "complete_recovery_mission" /\ last.ret = "StoreError" )
    => ~last.changed

\* C35: the shield counter stays between 0 and 2 through every sequence of
\* resets, streak checks and recovery completions.
C35_ShieldRange ==
    db.profile.shields \in 0 .. DEFAULT_SHIELDS

\* A recovery completion ran with no shield left, after a reset had run.
C35_Witness ==
    /\ last.op = "complete_recovery_mission" /\ last.changed
    /\ db.profile.last_reset # 0
    /\ db.profile.shields = 0 /\ db.profile.streak = 3

\* C36: reset_shields_if_new_week sets the shield counter to 2 when the ISO
\* (year, week) of the run differs from that of the last reset, and leaves it
\* unchanged when they are the same.
C36_NewIsoWeek ==
    [][ ( /\ last'.op = "reset_shields_if_new_week"
          /\ db.profile.exists /\ db.profile.last_reset # 0 )
        => IF Clock[last'.arg] # Clock[db.profile.last_reset]
           THEN db'.profile.shields = 2
           ELSE db'.profile.shields = db.profile.shields ]_vars

\* The recovery Assignments of a (user, date).
RecoveryAssigns(d, u, dt) ==
    {i \in DOMAIN d.assigns :
        /\ d.assigns[i].user = u /\ d.assigns[i].date = dt
        /\ d.missions[d.assigns[i].mission].recovery}

\* C40: however often check_and_handle_streak_break runs on a date, at most
\* one recovery Mission and Assignment exist for the (user, date).
C40_SingleRecovery ==
    \A u \in Users, dt \in Dates :
        /\ Cardinality(RecoveryAssigns(db, u, dt)) <= 1
        /\ Cardinality({m \in DOMAIN db.missions :
                           db.missions[m].recovery /\ db.missions[m].date = dt}) <= 1

C38_SwapsArchivedToo ==
    \A p, s, r \in DOMAIN db.runs :
        ( /\ p < s /\ s < r
          /\ db.runs[p].kind = "full_plan" /\ db.runs[p].status = "superseded"
          /\ db.runs[s].kind = "swap"
          /\ db.runs[r].kind = "full_plan" /\ db.runs[r].status = "assigned"
          /\ db.runs[p].user = db.runs[s].user /\ db.runs[p].date = db.runs[s].date
          /\ db.runs[r].user = db.runs[s].user /\ db.runs[r].date = db.runs[s].date
          /\ last.op = "assign" /\ last.arg = r )
        => \A a \in AssignsOfRun(db, s) : db.assigns[a].status # "pending"

\* C39: apply_swaps applies no more replacements than the ceiling the clock
\* allows when it runs, the swap_limit it writes into the run's metadata.
C39_WithinCeilingAtApply ==
    last.op = "btn_apply_swaps"
    => Cardinality(AssignsOfRun(db, last.arg)) <= last.swap_limit

====
